---- MODULE Spec2Model ----
(***************************************************************************)
(* Model of consolidated.py: consolidate_nextjs_files walks each           *)
(* configured folder of a source tree, writes one consolidated artifact    *)
(* per folder, rewrites the artifact's header with the file count, and     *)
(* composes a master artifact with a manifest and aggregate statistics.    *)
(*                                                                         *)
(* Text is modelled as a sequence of tokens.  A token is a record          *)
(* [k, f, g, n]: k is the kind of text, f and g are names (sequences of    *)
(* name pieces) and n is a number printed in the text.                     *)
(***************************************************************************)
EXTENDS Integers, Sequences, FiniteSets, TLC

\* ------------------------------------------------------------------ bounds
MaxFolders == 2      \* longest configured folder list
MaxFiles == 2        \* most files under one configured folder

\* ------------------------------------------------------- names and paths
src_dir == "src"
output_dir == "node_consolidate"
ConsolidatedSuffix == "_consolidated.txt"

\* Folder names a configuration may list (each a single path component).
FolderApp == <<"app">>
FolderDocs == <<"docs", ConsolidatedSuffix>>
FolderNames == {FolderApp, FolderDocs}

\* os.path.join(output_dir, f"{main_folder}_consolidated.txt")
OutputFile(main_folder) == <<output_dir, "/">> \o main_folder \o <<ConsolidatedSuffix>>

\* os.path.join(output_dir, 'master_consolidated.txt')
master_file_path == <<output_dir, "/", "master", ConsolidatedSuffix>>

RECURSIVE AfterLastSep(_)
AfterLastSep(p) ==
    IF p = <<>> THEN <<>>
    ELSE IF "/" \in {p[i] : i \in 1..Len(p)}
         THEN AfterLastSep(Tail(p))
         ELSE p

\* os.path.basename(cf)
Basename(p) == AfterLastSep(p)

\* str.replace(old, ''): every occurrence of the piece is removed
RemoveAll(s, old) == SelectSeq(s, LAMBDA x : x # old)

\* os.path.basename(cf).replace('_consolidated.txt', '')
MasterFolderName(cf) == RemoveAll(Basename(cf), ConsolidatedSuffix)

\* os.path.relpath(root, src_dir) for a directory visited by the walk
RelativePath(main_folder, dir) ==
    IF dir = "." THEN main_folder ELSE main_folder \o <<"/", dir>>

\* ------------------------------------------------------------ extensions
extensions == <<".js", ".jsx", ".ts", ".tsx", ".css", ".scss", ".json", ".md">>

ExtSet == {extensions[i] : i \in 1..Len(extensions)}

\* the pieces of a file name that start with a dot
DotPieces == ExtSet \cup {".env", ".gitignore", ".html", ".xml", ".yaml", ".yml",
                          ".txt", ".JS", ".TS", ".MD", ".Json", ".YML"}

\* f.endswith(ext)
EndsWith(name, ext) == Len(name) > 0 /\ name[Len(name)] = ext

\* any(f.endswith(ext) for ext in extensions)
MatchesExtension(name) == \E i \in 1..Len(extensions) : EndsWith(name, extensions[i])

\* os.path.splitext(file_name)[1]: the last dotted piece, unless the name
\* has nothing but that piece (leading dots belong to the root)
SplitExt(name) ==
    IF Len(name) >= 2 /\ name[Len(name)] \in DotPieces
    THEN name[Len(name)]
    ELSE ""

\* ext[1:]
DropFirstChar(ext) ==
    CASE ext = ".js" -> "js"     [] ext = ".jsx" -> "jsx"
      [] ext = ".ts" -> "ts"     [] ext = ".tsx" -> "tsx"
      [] ext = ".css" -> "css"   [] ext = ".scss" -> "scss"
      [] ext = ".json" -> "json" [] ext = ".md" -> "md"
      [] ext = ".env" -> "env"   [] ext = ".gitignore" -> "gitignore"
      [] ext = ".html" -> "html" [] ext = ".xml" -> "xml"
      [] ext = ".yaml" -> "yaml" [] ext = ".yml" -> "yml"
      [] ext = ".txt" -> "txt"   [] ext = ".JS" -> "JS"
      [] ext = ".TS" -> "TS"     [] ext = ".MD" -> "MD"
      [] ext = ".Json" -> "Json" [] ext = ".YML" -> "YML"
      [] OTHER -> ""

\* str.lower()
Lower(ext) ==
    CASE ext = ".JS" -> ".js"     [] ext = ".TS" -> ".ts"
      [] ext = ".MD" -> ".md"     [] ext = ".Json" -> ".json"
      [] ext = ".YML" -> ".yml"
      [] OTHER -> ext

extension_map ==
    [e \in {".js", ".jsx", ".ts", ".tsx", ".css", ".scss", ".json", ".md",
            ".env", ".gitignore", ".html", ".xml", ".yaml", ".yml"} |->
        CASE e = ".js" -> "javascript" [] e = ".jsx" -> "jsx"
          [] e = ".ts" -> "typescript" [] e = ".tsx" -> "tsx"
          [] e = ".css" -> "css"       [] e = ".scss" -> "scss"
          [] e = ".json" -> "json"     [] e = ".md" -> "markdown"
          [] e = ".env" -> "plaintext" [] e = ".gitignore" -> "plaintext"
          [] e = ".html" -> "html"     [] e = ".xml" -> "xml"
          [] e = ".yaml" -> "yaml"     [] e = ".yml" -> "yaml"]

\* extension_map.get(extension.lower(), 'plaintext')
map_extension_to_language(extension) ==
    IF Lower(extension) \in DOMAIN extension_map
    THEN extension_map[Lower(extension)]
    ELSE "plaintext"

\* ---------------------------------------------------------------- tokens
Tok(k, f, g, n) == [k |-> k, f |-> f, g |-> g, n |-> n]

Word == Tok("c", <<>>, <<>>, 0)          \* a run of ordinary text
NL == Tok("nl", <<>>, <<>>, 0)           \* a line break

\* '// Consolidated files from the "{main_folder}" folder'
HeaderText(main_folder) == Tok("hdr", main_folder, <<>>, 0)

\* '// Consolidated {included_files_count} files from the "{main_folder}" folder'
CountedHeaderText(main_folder, count) == Tok("hdrN", main_folder, <<>>, count)

\* '// This file contains all code files within the "{main_folder}" folder and its subfolders.\n\n'
HeaderLine2(main_folder) == Tok("hdr2", main_folder, <<>>, 0)

\* '// Directory: {relative_path}, File: {file_name}\n'
DirFileLine(relative_path, file_name) == Tok("dirfile", relative_path, file_name, 0)

\* '// File Type: {ext[1:]}\n'
FileTypeLine(ext) == Tok("type", <<DropFirstChar(ext)>>, <<>>, 0)

\* '```' + map_extension_to_language(ext) + '\n'
FenceOpen(ext) == Tok("fence", <<map_extension_to_language(ext)>>, <<>>, 0)

\* '\n```\n\n'
FenceClose == Tok("close", <<>>, <<>>, 0)

\* '// [Binary file or non-UTF-8 encoding, content skipped]\n\n'
SkipLine == Tok("skip", <<>>, <<>>, 0)

\* ----------------------------------------------- content of source files
RECURSIVE CountBreaks(_)
CountBreaks(content) ==
    IF content = <<>> THEN 0
    ELSE (IF Head(content) = NL THEN 1 ELSE 0) + CountBreaks(Tail(content))

\* len(content.splitlines()): a trailing line without a break still counts
LineCount(content) ==
    CountBreaks(content)
      + (IF content # <<>> /\ content[Len(content)] # NL THEN 1 ELSE 0)

TokenWeight(t) == IF t.k = "hdr" THEN 9 ELSE 1

RECURSIVE TokenCount(_)
\* len(tokenizer.encode(content)): deterministic in the content
TokenCount(content) ==
    IF content = <<>> THEN 0
    ELSE TokenWeight(Head(content)) + TokenCount(Tail(content))

\* ------------------------------------------------------- the source tree
\* A file under a configured folder: the directory it lies in ("." is the
\* folder itself), its name, whether it decodes as UTF-8, and its content.
FileQuote == [dir |-> ".", name |-> <<"readme", ".md">>, dec |-> TRUE,
              content |-> <<HeaderText(FolderApp), NL, Word>>]
FileUpper == [dir |-> ".", name |-> <<"App", ".JS">>, dec |-> TRUE,
              content |-> <<Word, NL>>]
FileBinary == [dir |-> "sub", name |-> <<"data", ".json">>, dec |-> FALSE,
               content |-> <<>>]
FileDot == [dir |-> "sub", name |-> <<".json">>, dec |-> TRUE,
            content |-> <<Word, NL>>]

FileKinds == {FileQuote, FileUpper, FileBinary, FileDot}

\* The files under a folder in the order the walk meets them: the folder's
\* own files first, then those of its subfolder, each directory in the
\* (arbitrary) order its listing yields them; no file occurs twice.
RECURSIVE Listings(_)
Listings(n) ==
    IF n = 0 THEN {<<>>}
    ELSE LET shorter == Listings(n - 1)
         IN shorter \cup
            {Append(p[1], p[2]) : p \in
                {q \in shorter \X FileKinds :
                    /\ Len(q[1]) = n - 1
                    /\ \A i \in 1..Len(q[1]) :
                          /\ q[1][i] # q[2]
                          /\ q[1][i].dir = "sub" => q[2].dir = "sub"}}

\* what is found at src_dir/<folder>
FolderStates ==
    {[kind |-> "absent", files |-> <<>>], [kind |-> "file", files |-> <<>>]}
      \cup {[kind |-> "dir", files |-> l] : l \in Listings(MaxFiles)}

RECURSIVE SeqsUpTo(_, _)
SeqsUpTo(S, n) ==
    IF n = 0 THEN {<<>>}
    ELSE LET shorter == SeqsUpTo(S, n - 1)
         IN shorter \cup {Append(s, x) : <<s, x>> \in
                            {p \in shorter \X S : Len(p[1]) = n - 1}}

VARIABLES
    main_folders,          \* the configured folder list
    fs,                    \* the source tree: folder name -> FolderStates
    disk,                  \* the output directory: path -> [exists, data]
    outdir_exists,         \* whether output_dir exists
    run,                   \* which run of the program this is, first or second
    pc,                    \* position in consolidate_nextjs_files
    idx,                   \* index of main_folder in main_folders
    total_lines_of_code, total_tokens, folder_summary, consolidated_files,
    folder_lines, folder_tokens, included_files_count,
    dirs_left,             \* directories os.walk has still to yield
    root,                  \* the directory os.walk yielded last
    included_files,        \* files of that directory still to be written
    report,                \* the totals printed at the end of the run
    pre_rewrite,           \* history: the artifact as read at line 97
    prev_disk              \* history: the output directory after the previous run

vars == <<main_folders, fs, disk, outdir_exists, run, pc, idx,
          total_lines_of_code, total_tokens, folder_summary, consolidated_files,
          folder_lines, folder_tokens, included_files_count,
          dirs_left, root, included_files, report, pre_rewrite, prev_disk>>

Paths == {OutputFile(f) : f \in FolderNames} \cup {master_file_path}

NoFile == [exists |-> FALSE, data |-> <<>>]

EmptySummary == [f \in {} |-> [lines |-> 0, tokens |-> 0]]

NoReport == [printed |-> FALSE, summary |-> EmptySummary, lines |-> 0, tokens |-> 0]

main_folder == main_folders[idx]

output_file == OutputFile(main_folder)

\* a slip: only existence is tested, not that the path is a directory
FolderUsableIfExists(f) == fs[f].kind # "absent"

\* os.path.exists(main_folder_path) and os.path.isdir(main_folder_path)
FolderUsable(f) == fs[f].kind # "absent" /\ fs[f].kind = "dir"

\* the directories os.walk(main_folder_path) yields, top-down; walking
\* something that is not a directory yields nothing
WalkDirs(f) ==
    IF fs[f].kind # "dir" THEN <<>>
    ELSE <<".">> \o (IF \E i \in 1..Len(fs[f].files) : fs[f].files[i].dir = "sub"
                     THEN <<"sub">> ELSE <<>>)

\* the files of one yielded directory, in listing order
FilesIn(f, dir) == SelectSeq(fs[f].files, LAMBDA x : x.dir = dir)

\* [f for f in files if any(f.endswith(ext) for ext in extensions)]
IncludedFiles(files) == SelectSeq(files, LAMBDA x : MatchesExtension(x.name))

\* a slip: the count is overwritten by each directory instead of added to
CountAfterDirOverwritten(count, included) == Len(included)

\* included_files_count += len(included_files)
CountAfterDir(count, included) == count + Len(included)

\* a slip: open(path, 'a') keeps what the file held
OpenForAppend(old) == [exists |-> TRUE, data |-> old.data]

\* open(path, 'w'): the file exists and is empty
OpenForWrite(old) == [exists |-> TRUE, data |-> <<>>]

\* out_file.write(text)
WriteTo(file, text) == [file EXCEPT !.data = @ \o text]

\* content.replace(old header text, counted header text): every occurrence
ReplaceHeader(content, f, count) ==
    [i \in 1..Len(content) |->
        IF content[i] = HeaderText(f) THEN CountedHeaderText(f, count)
        ELSE content[i]]

Init ==
    /\ main_folders \in (SeqsUpTo(FolderNames, MaxFolders) \ {<<>>})
    /\ fs \in [FolderNames -> FolderStates]
    \* a folder the configuration does not list is never looked at
    /\ \A f \in FolderNames :
          (\A i \in 1..Len(main_folders) : main_folders[i] # f)
             => fs[f].kind = "absent"
    /\ disk = [p \in Paths |-> NoFile]
    /\ outdir_exists = FALSE
    /\ run = 1
    /\ pc = "setup"
    /\ idx = 1
    /\ total_lines_of_code = 0
    /\ total_tokens = 0
    /\ folder_summary = EmptySummary
    /\ consolidated_files = <<>>
    /\ folder_lines = 0
    /\ folder_tokens = 0
    /\ included_files_count = 0
    /\ dirs_left = <<>>
    /\ root = "."
    /\ included_files = <<>>
    /\ report = NoReport
    /\ pre_rewrite = <<>>
    /\ prev_disk = [p \in Paths |-> NoFile]

\* lines 12-30: create the output directory, zero the accumulators
Setup ==
    /\ pc = "setup"
    /\ outdir_exists' = TRUE
    /\ total_lines_of_code' = 0
    /\ total_tokens' = 0
    /\ folder_summary' = EmptySummary
    /\ consolidated_files' = <<>>
    /\ idx' = 1
    /\ report' = NoReport
    /\ pc' = "loop"
    /\ UNCHANGED <<main_folders, fs, disk, run, folder_lines, folder_tokens,
                   included_files_count, dirs_left, root, included_files,
                   pre_rewrite, prev_disk>>

\* lines 33-39: the folder is missing or not a directory; warn and continue
SkipFolder ==
    /\ pc = "loop"
    /\ idx <= Len(main_folders)
    /\ ~FolderUsable(main_folder)
    /\ idx' = idx + 1
    /\ UNCHANGED <<main_folders, fs, disk, outdir_exists, run, pc,
                   total_lines_of_code, total_tokens, folder_summary,
                   consolidated_files, folder_lines, folder_tokens,
                   included_files_count, dirs_left, root, included_files,
                   report, pre_rewrite, prev_disk>>

\* lines 41-54: open the artifact, write the two header lines, start the walk
OpenFolder ==
    /\ pc = "loop"
    /\ idx <= Len(main_folders)
    /\ FolderUsable(main_folder)
    /\ folder_lines' = 0
    /\ folder_tokens' = 0
    /\ included_files_count' = 0
    /\ disk' = [disk EXCEPT ![output_file] =
                   WriteTo(OpenForWrite(@),
                           <<HeaderText(main_folder), NL, HeaderLine2(main_folder)>>)]
    /\ dirs_left' = WalkDirs(main_folder)
    /\ included_files' = <<>>
    /\ pc' = "walk"
    /\ UNCHANGED <<main_folders, fs, outdir_exists, run, idx,
                   total_lines_of_code, total_tokens, folder_summary,
                   consolidated_files, root, report, pre_rewrite, prev_disk>>

\* lines 54-64: the walk yields the next directory; filter and count its files
WalkDir ==
    /\ pc = "walk"
    /\ dirs_left # <<>>
    /\ LET included == IncludedFiles(FilesIn(main_folder, Head(dirs_left)))
       IN /\ included_files' = included
          /\ included_files_count' = CountAfterDir(included_files_count, included)
          /\ pc' = IF included = <<>> THEN "walk" ELSE "files"
    /\ root' = Head(dirs_left)
    /\ dirs_left' = Tail(dirs_left)
    /\ UNCHANGED <<main_folders, fs, disk, outdir_exists, run, idx,
                   total_lines_of_code, total_tokens, folder_summary,
                   consolidated_files, folder_lines, folder_tokens,
                   report, pre_rewrite, prev_disk>>

\* the two lines written before the file is read (lines 71-75)
BlockHeader(file) ==
    <<DirFileLine(RelativePath(main_folder, root), file.name),
      FileTypeLine(SplitExt(file.name))>>

\* lines 67-90: the file decodes; write its fenced content and count it
WriteDecoded ==
    /\ pc = "files"
    /\ included_files # <<>>
    /\ Head(included_files).dec
    /\ LET file == Head(included_files)
           content == file.content
           lines == LineCount(content)
           tokens == TokenCount(content)
       IN /\ disk' = [disk EXCEPT ![output_file] =
                         WriteTo(@, BlockHeader(file)
                                      \o <<FenceOpen(SplitExt(file.name))>>
                                      \o content \o <<FenceClose>>)]
          /\ folder_lines' = folder_lines + lines
          /\ folder_tokens' = folder_tokens + tokens
    /\ included_files' = Tail(included_files)
    /\ pc' = IF Tail(included_files) = <<>> THEN "walk" ELSE "files"
    /\ UNCHANGED <<main_folders, fs, outdir_exists, run, idx,
                   total_lines_of_code, total_tokens, folder_summary,
                   consolidated_files, included_files_count, dirs_left, root,
                   report, pre_rewrite, prev_disk>>

\* a slip: the decode error is not caught and ends the run
WriteSkippedUncaught ==
    /\ pc = "files"
    /\ included_files # <<>>
    /\ ~Head(included_files).dec
    /\ disk' = [disk EXCEPT ![output_file] =
                   WriteTo(@, BlockHeader(Head(included_files)))]
    /\ pc' = "aborted"
    /\ UNCHANGED <<main_folders, fs, outdir_exists, run, idx,
                   total_lines_of_code, total_tokens, folder_summary,
                   consolidated_files, folder_lines, folder_tokens,
                   included_files_count, dirs_left, root, included_files,
                   report, pre_rewrite, prev_disk>>

\* lines 67-77, 91-93: UnicodeDecodeError; write the placeholder, count nothing
WriteSkipped ==
    /\ pc = "files"
    /\ included_files # <<>>
    /\ ~Head(included_files).dec
    /\ disk' = [disk EXCEPT ![output_file] =
                   WriteTo(@, BlockHeader(Head(included_files)) \o <<SkipLine>>)]
    /\ included_files' = Tail(included_files)
    /\ pc' = IF Tail(included_files) = <<>> THEN "walk" ELSE "files"
    /\ UNCHANGED <<main_folders, fs, outdir_exists, run, idx,
                   total_lines_of_code, total_tokens, folder_summary,
                   consolidated_files, folder_lines, folder_tokens,
                   included_files_count, dirs_left, root,
                   report, pre_rewrite, prev_disk>>

\* lines 95-115: the walk is over; reread the artifact, put the count into
\* the header, write it back, record the artifact and the folder's totals
FinishFolder ==
    /\ pc = "walk"
    /\ dirs_left = <<>>
    /\ pre_rewrite' = disk[output_file].data
    /\ disk' = [disk EXCEPT ![output_file] =
                   WriteTo(OpenForWrite(@),
                           ReplaceHeader(disk[output_file].data, main_folder,
                                         included_files_count))]
    /\ consolidated_files' = Append(consolidated_files, output_file)
    /\ folder_summary' =
           [f \in DOMAIN folder_summary \cup {main_folder} |->
               IF f = main_folder
               THEN [lines |-> folder_lines, tokens |-> folder_tokens]
               ELSE folder_summary[f]]
    /\ total_lines_of_code' = total_lines_of_code + folder_lines
    /\ total_tokens' = total_tokens + folder_tokens
    /\ idx' = idx + 1
    /\ pc' = "loop"
    /\ UNCHANGED <<main_folders, fs, outdir_exists, run, folder_lines,
                   folder_tokens, included_files_count, dirs_left, root,
                   included_files, report, prev_disk>>

\* lines 121-125: the manifest
MasterManifest(files) ==
    <<Tok("mcount", <<>>, <<>>, Len(files))>>
      \o [i \in 1..Len(files) |-> Tok("mitem", Basename(files[i]), <<>>, 0)]

\* lines 128-130: the statistics block
MasterStatistics(lines, tokens) ==
    <<Tok("mlines", <<>>, <<>>, lines), Tok("mtokens", <<>>, <<>>, tokens)>>

RECURSIVE MasterBody(_, _)
\* lines 133-138: each artifact between its start and end markers
MasterBody(files, d) ==
    IF files = <<>> THEN <<>>
    ELSE <<Tok("start", MasterFolderName(Head(files)), <<>>, 0)>>
           \o d[Head(files)].data
           \o <<Tok("end", MasterFolderName(Head(files)), <<>>, 0)>>
           \o MasterBody(Tail(files), d)

\* lines 117-140: every folder has been handled; write the master artifact
ComposeMaster ==
    /\ pc = "loop"
    /\ idx > Len(main_folders)
    /\ disk' = [disk EXCEPT ![master_file_path] =
                   WriteTo(OpenForWrite(@),
                           MasterManifest(consolidated_files)
                             \o MasterStatistics(total_lines_of_code, total_tokens)
                             \o MasterBody(consolidated_files, disk))]
    /\ pc' = "report"
    /\ UNCHANGED <<main_folders, fs, outdir_exists, run, idx,
                   total_lines_of_code, total_tokens, folder_summary,
                   consolidated_files, folder_lines, folder_tokens,
                   included_files_count, dirs_left, root, included_files,
                   report, pre_rewrite, prev_disk>>

\* lines 142-147: print the per-folder summary and the totals
ReportSummary ==
    /\ pc = "report"
    /\ report' = [printed |-> TRUE, summary |-> folder_summary,
                  lines |-> total_lines_of_code, tokens |-> total_tokens]
    /\ pc' = "done"
    /\ UNCHANGED <<main_folders, fs, disk, outdir_exists, run, idx,
                   total_lines_of_code, total_tokens, folder_summary,
                   consolidated_files, folder_lines, folder_tokens,
                   included_files_count, dirs_left, root, included_files,
                   pre_rewrite, prev_disk>>

\* lines 175-178: the program is run a second time on the unchanged source
\* tree, with the output directory as the first run left it
RunAgain ==
    /\ pc = "done"
    /\ run = 1
    /\ run' = run + 1
    /\ prev_disk' = disk
    /\ pc' = "setup"
    /\ UNCHANGED <<main_folders, fs, disk, outdir_exists, idx,
                   total_lines_of_code, total_tokens, folder_summary,
                   consolidated_files, folder_lines, folder_tokens,
                   included_files_count, dirs_left, root, included_files,
                   report, pre_rewrite>>

Next ==
    \/ Setup
    \/ SkipFolder
    \/ OpenFolder
    \/ WalkDir
    \/ WriteDecoded
    \/ WriteSkipped
    \/ FinishFolder
    \/ ComposeMaster
    \/ ReportSummary
    \/ RunAgain

Spec == Init /\ [][Next]_vars

\* ===================================================== what the claims need
RECURSIVE SumLines(_)
SumLines(files) ==
    IF files = <<>> THEN 0
    ELSE LineCount(Head(files).content) + SumLines(Tail(files))

RECURSIVE SumTokens(_)
SumTokens(files) ==
    IF files = <<>> THEN 0
    ELSE TokenCount(Head(files).content) + SumTokens(Tail(files))

IsDirectory(f) == fs[f].kind = "dir"

\* the files under folder f whose names end with a recognized extension
Matching(f) == SelectSeq(fs[f].files, LAMBDA x : \E e \in ExtSet : EndsWith(x.name, e))

\* those of them that decode as text
Decoded(f) == SelectSeq(Matching(f), LAMBDA x : x.dec)

CountKind(data, k) == Len(SelectSeq(data, LAMBDA t : t.k = k))

Artifact(f) == disk[OutputFile(f)]

Configured == {main_folders[i] : i \in 1..Len(main_folders)}

\* the configured folders that are directories, as a set and in list order
ProcessedSet == {f \in Configured : IsDirectory(f)}
ProcessedSeq == SelectSeq(main_folders, IsDirectory)

\* the folder handled by the step that led to the loop head
JustHandled == main_folders[idx - 1]
AtLoopHeadAfterFolder == pc = "loop" /\ idx > 1

RunOver == pc \in {"report", "done"}

Master == disk[master_file_path].data

\* ---------------------------------------------------------------------- C1
HeaderAndBlocksAgree(f) ==
    /\ Artifact(f).exists
    /\ Artifact(f).data # <<>>
    /\ Artifact(f).data[1] = CountedHeaderText(f, Len(Matching(f)))
    /\ CountKind(Artifact(f).data, "dirfile") = Len(Matching(f))

\* C1: once a folder that is a directory with k matching files has been
\* finished, its artifact starts with the header counting exactly k and
\* holds exactly k Directory/File blocks; the same holds of every processed
\* folder when the run is over.
C1_HeaderCountEqualsBlocks ==
    /\ (AtLoopHeadAfterFolder /\ IsDirectory(JustHandled))
          => HeaderAndBlocksAgree(JustHandled)
    /\ RunOver => \A f \in ProcessedSet : HeaderAndBlocksAgree(f)

\* a folder with matching files in both of its directories, one of them
\* undecodable, has just been finished
C1_Witness ==
    /\ AtLoopHeadAfterFolder
    /\ IsDirectory(JustHandled)
    /\ Len(Matching(JustHandled)) = 2
    /\ Len(WalkDirs(JustHandled)) = 2
    /\ Len(Decoded(JustHandled)) = 1
    /\ CountKind(Artifact(JustHandled).data, "dirfile") = 2

\* ---------------------------------------------------------------------- C2
NoTraceOf(f) ==
    /\ ~Artifact(f).exists
    /\ f \notin DOMAIN folder_summary
    /\ \A i \in 1..Len(consolidated_files) : consolidated_files[i] # OutputFile(f)
    /\ \A i \in 1..Len(Master) :
          ~(Master[i].k = "mitem" /\ Master[i].f = Basename(OutputFile(f)))

SkipIsHarmless ==
    (pc = "loop" /\ idx <= Len(main_folders) /\ ~IsDirectory(main_folder))
       => /\ pc' = "loop"
          /\ idx' = idx + 1
          /\ UNCHANGED <<disk, total_lines_of_code, total_tokens,
                         folder_summary, consolidated_files>>

\* C2: the step that meets a configured folder that is absent or not a
\* directory changes no file and no total and moves on to the next
\* configured folder, and after every step such a folder has no artifact,
\* no summary entry and no manifest line.
C2_MissingFolderSkipped ==
    [][/\ SkipIsHarmless
       /\ (\A f \in Configured : ~IsDirectory(f) => NoTraceOf(f))']_vars

\* a run that met a non-directory first and still consolidated the next folder
C2_Witness ==
    /\ pc = "done"
    /\ Len(main_folders) = 2
    /\ fs[main_folders[1]].kind = "file"
    /\ IsDirectory(main_folders[2])
    /\ consolidated_files = <<OutputFile(main_folders[2])>>
    /\ Len(Matching(main_folders[2])) > 0

\* ---------------------------------------------------------------------- C3
RECURSIVE SumOverFolders(_, _)
SumOverFolders(S, field) ==
    IF S = {} THEN 0
    ELSE LET f == CHOOSE x \in S : TRUE
         IN (IF field = "lines" THEN SumLines(Decoded(f)) ELSE SumTokens(Decoded(f)))
              + SumOverFolders(S \ {f}, field)

\* C3: when the run is over the reported line total is the sum of the line
\* counts of the decoded matching files of the processed folders, and the
\* reported token total is the sum of their token counts.
C3_TotalsAreSumsOverDecodedFiles ==
    pc = "done" =>
        /\ report.lines = SumOverFolders(ProcessedSet, "lines")
        /\ report.tokens = SumOverFolders(ProcessedSet, "tokens")

\* ---------------------------------------------------------------------- C4
IsDecodable(name) == \E x \in FileKinds : x.name = name /\ x.dec

BlocksMarked(data) ==
    \A i \in 1..Len(data) :
        data[i].k = "dirfile" =>
            /\ i + 2 <= Len(data)
            /\ data[i + 2].k = (IF IsDecodable(data[i].g) THEN "fence" ELSE "skip")

UndecodableStep ==
    (pc = "files" /\ ~Head(included_files).dec)
       => /\ pc' \in {"files", "walk"}
          /\ included_files' = Tail(included_files)
          /\ disk'[output_file].data =
                 disk[output_file].data
                    \o <<DirFileLine(RelativePath(main_folder, root),
                                     Head(included_files).name),
                         disk'[output_file].data[Len(disk[output_file].data) + 2],
                         SkipLine>>
          /\ UNCHANGED <<folder_lines, folder_tokens, included_files_count,
                         total_lines_of_code, total_tokens>>

\* C4: the step that meets a matching file that does not decode writes its
\* block with the skip placeholder, leaves the line and token counts alone
\* and goes on with the walk; after every step each block on disk is fenced
\* exactly if its file decodes, and once the run is over every processed
\* folder's header counts the undecodable files too, every matching file
\* has its block, and the folder's summary counts the decoded files only.
C4_UndecodableFileIsSkippedInline ==
    [][/\ UndecodableStep
       /\ (\A f \in ProcessedSet :
              Artifact(f).exists => BlocksMarked(Artifact(f).data))'
       /\ (RunOver =>
              \A f \in ProcessedSet :
                  /\ HeaderAndBlocksAgree(f)
                  /\ CountKind(Artifact(f).data, "skip")
                        = Len(Matching(f)) - Len(Decoded(f))
                  /\ folder_summary[f].lines = SumLines(Decoded(f))
                  /\ folder_summary[f].tokens = SumTokens(Decoded(f)))']_vars

\* a finished run in which an undecodable file's placeholder is followed by
\* the block of a later file of the same folder
C4_Witness ==
    /\ pc = "done"
    /\ \E f \in ProcessedSet :
          \E i \in 1..Len(Artifact(f).data) :
              /\ Artifact(f).data[i].k = "skip"
              /\ \E j \in (i + 1)..Len(Artifact(f).data) :
                    Artifact(f).data[j].k = "fence"

\* ---------------------------------------------------------------------- C5
RECURSIVE FirstOccurrences(_, _)
FirstOccurrences(s, seen) ==
    IF s = <<>> THEN <<>>
    ELSE IF Head(s) \in seen
         THEN FirstOccurrences(Tail(s), seen)
         ELSE <<Head(s)>> \o FirstOccurrences(Tail(s), seen \cup {Head(s)})

\* the artifacts this run created, each once, in configured order
CreatedArtifacts == FirstOccurrences(ProcessedSeq, {})

ManifestItems == SelectSeq(Master, LAMBDA t : t.k = "mitem")

\* C5: the master's manifest names exactly the artifacts created in this
\* run, each once and in configured order, its count is their number, and
\* its statistics are the aggregate totals.
C5_ManifestListsCreatedArtifacts ==
    RunOver =>
        /\ Len(ManifestItems) = Len(CreatedArtifacts)
        /\ \A i \in 1..Len(CreatedArtifacts) :
              ManifestItems[i].f = Basename(OutputFile(CreatedArtifacts[i]))
        /\ Master[1] = Tok("mcount", <<>>, <<>>, Len(CreatedArtifacts))
        /\ CountKind(Master, "mlines") = 1
        /\ \A i \in 1..Len(Master) :
              /\ Master[i].k = "mlines" => Master[i].n = total_lines_of_code
              /\ Master[i].k = "mtokens" => Master[i].n = total_tokens

\* ---------------------------------------------------------------------- C6
RECURSIVE SumSummary(_, _)
SumSummary(S, field) ==
    IF S = {} THEN 0
    ELSE LET f == CHOOSE x \in S : TRUE
         IN folder_summary[f][field] + SumSummary(S \ {f}, field)

\* C6: after each folder and at the end of the run, the aggregate totals
\* are the sums of the folder summary's lines and tokens fields.
C6_TotalsEqualSummarySums ==
    pc \in {"loop", "report", "done"} =>
        /\ total_lines_of_code = SumSummary(DOMAIN folder_summary, "lines")
        /\ total_tokens = SumSummary(DOMAIN folder_summary, "tokens")

\* ---------------------------------------------------------------------- C7
RECURSIVE ExpectedBody(_)
ExpectedBody(folders) ==
    IF folders = <<>> THEN <<>>
    ELSE <<Tok("start", Head(folders), <<>>, 0)>>
           \o Artifact(Head(folders)).data
           \o <<Tok("end", Head(folders), <<>>, 0)>>
           \o ExpectedBody(Tail(folders))

\* what the master holds after the manifest and the statistics block
MasterAfterStatistics ==
    SubSeq(Master, Len(consolidated_files) + 4, Len(Master))

\* C7: the master holds, for each listed artifact in manifest order, a start
\* marker naming the configured folder, the artifact as it stands after its
\* header rewrite, and an end marker naming the same folder; and when
\* composition starts every processed folder's header carries its count.
C7_MasterWrapsArtifactsByFolder ==
    /\ (pc = "loop" /\ idx > Len(main_folders))
          => \A f \in ProcessedSet : Artifact(f).data[1].k = "hdrN"
    /\ RunOver => MasterAfterStatistics = ExpectedBody(ProcessedSeq)

\* ---------------------------------------------------------------------- C8
\* C8: a second run on the unchanged tree leaves every artifact and the
\* master exactly as the first run left them.
C8_SecondRunReproducesArtifacts ==
    (pc = "done" /\ run > 1) => disk = prev_disk

\* a second run is over, over a folder with two blocks and stale artifacts
C8_Witness ==
    /\ pc = "done"
    /\ run = 2
    /\ disk[master_file_path].exists
    /\ prev_disk[master_file_path].exists
    /\ \E f \in ProcessedSet : CountKind(Artifact(f).data, "dirfile") = 2

\* ---------------------------------------------------------------------- C9
\* C9: the block of a decoded file whose name ends with the recognized
\* extension e has the file-type line of e without its dot and a fence
\* opened with the tag the table gives e.
C9_BlockNamesExtensionAndLanguage ==
    \A f \in FolderNames :
        \A i \in 1..Len(Artifact(f).data) :
            (/\ Artifact(f).data[i].k = "dirfile"
             /\ i + 2 <= Len(Artifact(f).data)
             /\ Artifact(f).data[i + 2].k = "fence")
              => \E e \in ExtSet :
                    /\ EndsWith(Artifact(f).data[i].g, e)
                    /\ Artifact(f).data[i + 1].f = <<DropFirstChar(e)>>
                    /\ Artifact(f).data[i + 2].f = <<extension_map[e]>>

\* --------------------------------------------------------------------- C10
AfterHeader(data) == SubSeq(data, 2, Len(data))

\* C10: the header rewrite leaves everything after the leading header text
\* as the walk wrote it.
C10_RewriteChangesOnlyHeader ==
    (AtLoopHeadAfterFolder /\ IsDirectory(JustHandled))
       => AfterHeader(Artifact(JustHandled).data) = AfterHeader(pre_rewrite)

====
